---- MODULE Spec2Model ----
(***************************************************************************)
(* A model of the CleanStream audio filter (src/src/cleanstream-filter.cpp):*)
(* the audio callback (cleanstream_filter_audio), the inference worker     *)
(* (whisper_loop, process_audio_from_buffer, run_whisper_inference), the   *)
(* configuration update with its model download callback, and destroy.     *)
(*                                                                         *)
(* Threads: "audio" (the host's audio callback), "ctl" (the host thread    *)
(* that calls update, activate, deactivate, destroy and on which the       *)
(* download dialog reports completion) and the worker threads w1, w2, ...  *)
(* Every critical section is two steps: taking the mutex, then the body    *)
(* together with the release, so that states in which a mutex is held are  *)
(* visible.                                                                *)
(*                                                                         *)
(* Samples are abstract: the n-th sample accepted into channel c is the    *)
(* number SampleOf(c, n), so every accepted sample is distinct; 0 is a     *)
(* muted sample, BeepAt(i) the tone sample of index i, Junk a value read   *)
(* from outside a buffer.  The audio is scaled down: sample_rate is 10 Hz, *)
(* so a 1010 ms window is 10 frames and one frame is 100 ms.               *)
(*                                                                         *)
(* size_t / uint64_t values that wrapped around are kept as negative       *)
(* numbers (two's complement) for overlap_ms; a frame count that is beyond *)
(* the model's integer range is the marker Huge.                           *)
(***************************************************************************)
EXTENDS Integers, Sequences, FiniteSets, TLC

\* ------------------------------------------------------------------------
\* Program constants
\* ------------------------------------------------------------------------
BUFFER_SIZE_MSEC == 1010
OVERLAP_SIZE_MSEC == 340
MIN_OVERLAP_MSEC == 100
OVERLAP_STEP_MSEC == 10
MSEC_PER_SEC == 1000
\* host-provided, fixed for the filter's lifetime
channels == 2
sample_rate == 10
\* gf->frames: frames per window at the source rate
frames == (sample_rate * BUFFER_SIZE_MSEC) \div MSEC_PER_SEC

\* ------------------------------------------------------------------------
\* Bounds of the model
\* ------------------------------------------------------------------------
\* number of calls of the audio callback, with the control thread at work
MaxPushes == 2
\* number of calls of the audio callback, with activation and every ASR outcome
MaxAudioPushes == 3
\* number of calls of the audio callback, with the ASR stubbed
MaxStubPushes == 6
\* number of process_audio_from_buffer invocations
MaxWindows == 3
\* number of cleanstream_update calls
MaxUpdates == 2
\* frame counts of the packets the host pushes
PacketFrames == {2, 10}

Channels == 0 .. (channels - 1)
Workers == {"w1", "w2", "w3"}
WorkerOrder == <<"w1", "w2", "w3">>
ModelPaths == {"tiny", "base"}
NoThread == "none"
nullptr == 0

Huge == 0 - 1
Junk == 0 - 2

UNKNOWN == "UNKNOWN"
SILENCE == "SILENCE"
SPEECH == "SPEECH"
FILLER == "FILLER"
BEEP == "BEEP"

VARIABLES
    \* struct cleanstream_data
    active, whisper_context, whisper_model_path, whisper_thread,
    overlap_ms, overlap_frames, last_num_frames,
    copy_buffers, copy_output_buffers,
    info_buffer, info_out_buffer, input_buffers, output_buffers,
    do_silence, vad_enabled, detect_regex, beep_regex, whisper_params,
    \* the three process-wide mutexes: the thread holding each
    whisper_buf_mutex, whisper_outbuf_mutex, whisper_ctx_mutex,
    \* the audio thread: its position and the packet being pushed
    a_pc, audio,
    \* the workers: position and locals of process_audio_from_buffer
    w_pc, w_local,
    \* the control thread
    c_pc, c_new_path, c_new_params, downloads,
    \* the environment: models on disk, contexts, the ASR stub, timestamps
    models_on_disk, ctx_allocated, ctx_live, asr_stub, ts_base, push_limit,
    \* the transcript of the ASR call and the class the classifier gives it
    text, inference_result,
    \* the host's view and bookkeeping of the run
    returned, accepted, pushes, windows, updates, fatal, freed

gfVars == <<active, whisper_context, whisper_model_path, whisper_thread,
            overlap_ms, overlap_frames, last_num_frames,
            copy_buffers, copy_output_buffers,
            info_buffer, info_out_buffer, input_buffers, output_buffers,
            do_silence, vad_enabled, detect_regex, beep_regex,
            whisper_params>>
mutexVars == <<whisper_buf_mutex, whisper_outbuf_mutex, whisper_ctx_mutex>>
threadVars == <<a_pc, audio, w_pc, w_local, c_pc, c_new_path, c_new_params, downloads>>
envVars == <<models_on_disk, ctx_allocated, ctx_live, asr_stub, ts_base,
             push_limit, text, inference_result>>
histVars == <<returned, accepted, pushes, windows, updates, fatal, freed>>
ctlVars == <<c_pc, c_new_path, c_new_params, downloads>>
ringVars == <<info_buffer, info_out_buffer, input_buffers, output_buffers>>
windowVars == <<overlap_ms, overlap_frames, last_num_frames, copy_buffers,
                copy_output_buffers>>
audioVars == <<a_pc, audio>>
vars == <<gfVars, mutexVars, threadVars, envVars, histVars>>

\* ------------------------------------------------------------------------
\* Helpers
\* ------------------------------------------------------------------------
RECURSIVE SumFrames(_)
SumFrames(infos) ==
    IF infos = <<>> THEN 0 ELSE Head(infos).frames + SumFrames(Tail(infos))

Take(s, n) == SubSeq(s, 1, n)
Drop(s, n) == SubSeq(s, n + 1, Len(s))

\* the n-th sample (n >= 1) accepted into channel c
SampleOf(c, n) == n * channels + c
\* the 440 Hz tone sample of index i (i >= 0): 0.5 * sinf(2 pi 440 i / rate)
BeepAt(i) == 0 - (i + 1 + channels)

\* unsigned 64-bit order on two's complement values
U64Less(a, b) == IF (a < 0) = (b < 0) THEN a < b ELSE b < 0
U64Max(a, b) == IF U64Less(a, b) THEN b ELSE a
U64Min(a, b) == IF U64Less(a, b) THEN a ELSE b

\* gf->overlap_ms * gf->sample_rate / 1000 in size_t arithmetic
OverlapFramesOf(ms) ==
    IF ms < 0 THEN Huge ELSE (ms * sample_rate) \div MSEC_PER_SEC

\* the timestamp the host gives to its k-th packet (k >= 1)
TimestampOf(k) == ts_base + (k - 1)

NoPacket == [frames |-> 0, timestamp |-> 0, id |-> 0]
NoLocals == [num_new_frames_from_infos |-> 0, start_timestamp |-> 0,
             skipped_inference |-> FALSE, first_id |-> 0]

Running == fatal = "none"

\* cleanstream_destroy has been entered
Destroying == c_pc \in {"d_lock", "d_null", "d_join", "d_lock_buf",
                        "d_lock_out", "d_free", "d_free_info",
                        "destroyed"}

\* ------------------------------------------------------------------------
\* cleanstream_create: the state after a successful create
\* ------------------------------------------------------------------------
InitFilter ==
    /\ active = TRUE
    /\ whisper_context = 1
    /\ whisper_model_path = "tiny"
    /\ whisper_thread = "w1"
    /\ overlap_ms = OVERLAP_SIZE_MSEC
    /\ overlap_frames = (sample_rate * OVERLAP_SIZE_MSEC) \div MSEC_PER_SEC
    /\ last_num_frames = 0
    /\ copy_buffers = [c \in Channels |-> <<>>]
    /\ copy_output_buffers = [c \in Channels |-> <<>>]
    /\ info_buffer = <<>>
    /\ info_out_buffer = <<>>
    /\ input_buffers = [c \in Channels |-> <<>>]
    /\ output_buffers = [c \in Channels |-> <<>>]
    /\ whisper_buf_mutex = NoThread
    /\ whisper_outbuf_mutex = NoThread
    /\ whisper_ctx_mutex = NoThread
    /\ a_pc = "idle"
    /\ audio = NoPacket
    /\ w_pc = [w \in Workers |-> IF w = "w1" THEN "loop" ELSE "unborn"]
    /\ w_local = [w \in Workers |-> NoLocals]
    /\ c_pc = "idle"
    /\ c_new_path = "tiny"
    /\ c_new_params = 1
    /\ downloads = <<>>
    /\ ctx_allocated = 1
    /\ ctx_live = {1}
    /\ returned = <<>>
    /\ accepted = 0
    /\ pushes = 0
    /\ windows = 0
    /\ updates = 0
    /\ fatal = "none"
    /\ freed = FALSE

\* ------------------------------------------------------------------------
\* The classifier of run_whisper_inference (lines 346-385).  A string is a
\* sequence of characters; a pattern is a string that std::regex either
\* compiles to a search for that string, or rejects.
\* ------------------------------------------------------------------------
MaxTextLen == 3
Chars == {"u", "h", "U", "f", " "}
Texts == UNION {[1 .. n -> Chars] : n \in 0 .. MaxTextLen}

\* an unset or empty pattern, the two settings used by the lifecycle, and a
\* pattern that does not compile
NoPattern == <<>>
DefaultDetectRegex == <<"u", "h">>
DefaultBeepRegex == <<"f">>
BadPattern == <<"(">>
Patterns == {NoPattern, DefaultDetectRegex, DefaultBeepRegex, BadPattern}

\* lines 347-348: ::tolower on every character
ToLower(str) == [i \in 1 .. Len(str) |-> IF str[i] = "U" THEN "u" ELSE str[i]]

\* lines 349-353: erase the white space at the end
RECURSIVE RTrim(_)
RTrim(str) ==
    IF str = <<>> THEN str
    ELSE IF str[Len(str)] = " " THEN RTrim(SubSeq(str, 1, Len(str) - 1))
    ELSE str

\* lines 367, 374: the std::regex constructor throws on an ill-formed pattern
Compiles(pattern) == \A i \in 1 .. Len(pattern) : pattern[i] # "("

\* lines 368-369, 375-376: std::regex_search, a match anywhere in the string
RegexSearch(str, pattern) ==
    \E k \in 0 .. (Len(str) - Len(pattern)) :
        SubSeq(str, k + 1, k + Len(pattern)) = pattern

\* lines 346-385: the class of the transcript of a successful ASR call.  A
\* regex_error leaves the try block, whichever pattern raised it.
Classify(str, detect, beep) ==
    LET text_lower == RTrim(ToLower(str))
    IN IF text_lower = <<>> THEN SILENCE
       ELSE IF detect # NoPattern /\ ~Compiles(detect) THEN SPEECH
       ELSE IF detect # NoPattern /\ RegexSearch(text_lower, detect) THEN FILLER
       ELSE IF beep # NoPattern /\ ~Compiles(beep) THEN SPEECH
       ELSE IF beep # NoPattern /\ RegexSearch(text_lower, beep) THEN BEEP
       ELSE SPEECH

\* no transcript is under classification
NoTranscript == text = <<>> /\ inference_result = UNKNOWN

\* the outcomes of an ASR call: an exception, a non-zero return code, or a
\* transcript that the classifier puts in one of its classes
AsrOutcomes == {"throw", "fail", SILENCE, SPEECH, FILLER, BEEP}

\* the settings objects the host passes to create and update
SettingsChoices ==
    {[do_silence |-> TRUE, vad_enabled |-> FALSE, whisper_params |-> 1,
      detect_regex |-> DefaultDetectRegex, beep_regex |-> DefaultBeepRegex],
     [do_silence |-> FALSE, vad_enabled |-> TRUE, whisper_params |-> 2,
      detect_regex |-> DefaultDetectRegex, beep_regex |-> DefaultBeepRegex]}

InitSettings ==
    \E s \in SettingsChoices :
        /\ do_silence = s.do_silence
        /\ vad_enabled = s.vad_enabled
        /\ whisper_params = s.whisper_params
        /\ detect_regex = s.detect_regex
        /\ beep_regex = s.beep_regex

Init ==
    /\ InitFilter
    /\ InitSettings
    /\ models_on_disk \in {{"tiny"}, {"tiny", "base"}}
    /\ asr_stub = {"throw", SPEECH}
    /\ ts_base = 1
    /\ push_limit = MaxPushes
    /\ NoTranscript

\* the audio path: pushes, the worker, activate and deactivate
InitAudio ==
    /\ InitFilter
    /\ InitSettings
    /\ models_on_disk = {"tiny"}
    /\ asr_stub = AsrOutcomes
    /\ ts_base \in {0, 1}
    /\ push_limit = MaxAudioPushes
    /\ NoTranscript

\* the ASR replaced by a stub that classifies every window the same way
InitStub ==
    /\ InitFilter
    /\ InitSettings
    /\ models_on_disk = {"tiny"}
    /\ asr_stub \in {{SILENCE}, {SPEECH}}
    /\ ts_base \in {0, 1}
    /\ push_limit = MaxStubPushes
    /\ NoTranscript

\* ------------------------------------------------------------------------
\* cleanstream_filter_audio (the audio thread)
\* ------------------------------------------------------------------------
\* a faulty variant of PassesThrough: only the active flag is tested
PassesThroughInactiveOnly == ~active

\* lines 638-645: the packet is returned as it came when the filter is
\* inactive or has no context; both fields are read without a mutex
PassesThrough == ~active \/ whisper_context = nullptr

\* the host's record of a packet returned verbatim
Verbatim(pkt) == [verbatim |-> TRUE, frames |-> pkt.frames,
                  timestamp |-> pkt.timestamp, id |-> pkt.id,
                  data |-> [c \in Channels |-> <<>>]]

filter_audio_enter(n) ==
    /\ Running /\ a_pc = "idle" /\ ~Destroying
    /\ pushes < push_limit
    /\ pushes' = pushes + 1
    /\ LET pkt == [frames |-> n, timestamp |-> TimestampOf(pushes + 1),
                   id |-> pushes + 1]
       IN IF PassesThrough
          THEN /\ returned' = Append(returned, Verbatim(pkt))
               /\ UNCHANGED <<a_pc, audio>>
          ELSE /\ a_pc' = "buf"
               /\ audio' = pkt
               /\ UNCHANGED returned
    /\ UNCHANGED <<gfVars, mutexVars, w_pc, w_local, ctlVars,
                   envVars, accepted, windows, updates, fatal, freed>>

\* line 648: std::lock_guard lock(whisper_buf_mutex)
filter_audio_lock_buf ==
    /\ Running /\ a_pc = "buf" /\ whisper_buf_mutex = NoThread
    /\ whisper_buf_mutex' = "audio"
    /\ a_pc' = "buf_cs"
    /\ UNCHANGED <<gfVars, whisper_outbuf_mutex, whisper_ctx_mutex, audio, w_pc,
                   w_local, ctlVars, envVars, histVars>>

\* a faulty variant of PushedSamples: the last sample of the packet is lost
PushedSamplesShort(c, have, n) == [i \in 1 .. (n - 1) |-> SampleOf(c, have + i)]

\* lines 653-662: append the samples and the packet info, release the mutex
PushedSamples(c, have, n) == [i \in 1 .. n |-> SampleOf(c, have + i)]

filter_audio_append ==
    /\ Running /\ a_pc = "buf_cs"
    /\ input_buffers' = [c \in Channels |->
            input_buffers[c] \o
            PushedSamples(c, accepted, audio.frames)]
    /\ info_buffer' = Append(info_buffer, [frames |-> audio.frames,
                                            timestamp |-> audio.timestamp,
                                            id |-> audio.id])
    /\ accepted' = accepted + audio.frames
    /\ whisper_buf_mutex' = NoThread
    /\ a_pc' = "out"
    /\ UNCHANGED <<active, whisper_context, whisper_model_path, whisper_thread,
                   overlap_ms, overlap_frames, last_num_frames, copy_buffers,
                   copy_output_buffers, info_out_buffer, output_buffers,
                   do_silence, vad_enabled, detect_regex, beep_regex, whisper_params,
                   whisper_outbuf_mutex, whisper_ctx_mutex, audio, w_pc, w_local,
                   ctlVars, envVars,
                   returned, pushes, windows, updates, fatal, freed>>

\* line 667: std::lock_guard lock(whisper_outbuf_mutex)
filter_audio_lock_out ==
    /\ Running /\ a_pc = "out" /\ whisper_outbuf_mutex = NoThread
    /\ whisper_outbuf_mutex' = "audio"
    /\ a_pc' = "out_cs"
    /\ UNCHANGED <<gfVars, whisper_buf_mutex, whisper_ctx_mutex, audio, w_pc,
                   w_local, ctlVars, envVars, histVars>>

\* a faulty variant of PopFront: the samples are read and left in the ring
PopFrontKeeps(ring, n) ==
    IF n <= Len(ring)
    THEN [data |-> Take(ring, n), rest |-> ring, ok |-> TRUE]
    ELSE [data |-> ring \o [i \in 1 .. (n - Len(ring)) |-> Junk],
          rest |-> ring, ok |-> FALSE]

\* circlebuf_pop_front of n samples: what is read and what is left.  A pop of
\* more than the ring holds reads past its data.
PopFront(ring, n) ==
    IF n <= Len(ring)
    THEN [data |-> Take(ring, n), rest |-> Drop(ring, n), ok |-> TRUE]
    ELSE [data |-> ring \o [i \in 1 .. (n - Len(ring)) |-> Junk],
          rest |-> <<>>, ok |-> FALSE]

\* lines 669-696: nothing to output, or pop one packet info and its samples
filter_audio_pop ==
    /\ Running /\ a_pc = "out_cs"
    /\ IF info_out_buffer = <<>>
       THEN UNCHANGED <<info_out_buffer, output_buffers, returned>>
       ELSE LET info_out == Head(info_out_buffer)
            IN /\ info_out_buffer' = Tail(info_out_buffer)
               /\ output_buffers' = [c \in Channels |->
                        PopFront(output_buffers[c], info_out.frames).rest]
               /\ returned' = Append(returned,
                        [verbatim |-> FALSE, frames |-> info_out.frames,
                         timestamp |-> info_out.timestamp, id |-> info_out.id,
                         data |-> [c \in Channels |->
                            PopFront(output_buffers[c], info_out.frames).data]])
    /\ whisper_outbuf_mutex' = NoThread
    /\ a_pc' = "idle"
    /\ audio' = NoPacket
    /\ UNCHANGED <<active, whisper_context, whisper_model_path, whisper_thread,
                   overlap_ms, overlap_frames, last_num_frames, copy_buffers,
                   copy_output_buffers, info_buffer, input_buffers,
                   do_silence, vad_enabled, detect_regex, beep_regex, whisper_params,
                   whisper_buf_mutex, whisper_ctx_mutex, w_pc, w_local,
                   ctlVars, envVars,
                   accepted, pushes, windows, updates, fatal, freed>>


\* ------------------------------------------------------------------------
\* whisper_loop and process_audio_from_buffer (a worker thread w)
\* ------------------------------------------------------------------------
\* line 593: std::lock_guard lock(whisper_ctx_mutex)
whisper_loop_lock_ctx(w) ==
    /\ Running /\ w_pc[w] = "loop" /\ whisper_ctx_mutex = NoThread
    /\ whisper_ctx_mutex' = w
    /\ w_pc' = [w_pc EXCEPT ![w] = "loop_cs"]
    /\ UNCHANGED <<gfVars, whisper_buf_mutex, whisper_outbuf_mutex, a_pc, audio,
                   w_local, ctlVars, envVars, histVars>>

\* a faulty variant of whisper_loop_check: the context mutex stays locked
\* over the rest of the loop body
whisper_loop_check_keeps_lock(w) ==
    /\ Running /\ w_pc[w] = "loop_cs"
    /\ w_pc' = [w_pc EXCEPT ![w] =
                    IF whisper_context = nullptr THEN "exited" ELSE "poll"]
    /\ whisper_ctx_mutex' = IF whisper_context = nullptr THEN NoThread ELSE w
    /\ UNCHANGED <<gfVars, whisper_buf_mutex, whisper_outbuf_mutex, a_pc, audio,
                   w_local, ctlVars, envVars,
                   returned, accepted, pushes, windows, updates, fatal, freed>>

\* lines 594-598: leave the loop when the context is null
whisper_loop_check(w) ==
    /\ Running /\ w_pc[w] = "loop_cs"
    /\ w_pc' = [w_pc EXCEPT ![w] =
                    IF whisper_context = nullptr THEN "exited" ELSE "poll"]
    /\ whisper_ctx_mutex' = NoThread
    /\ UNCHANGED <<gfVars, whisper_buf_mutex, whisper_outbuf_mutex, a_pc, audio,
                   w_local, ctlVars, envVars,
                   returned, accepted, pushes, windows, updates, fatal, freed>>

\* line 604: std::lock_guard lock(whisper_buf_mutex)
whisper_loop_lock_buf(w) ==
    /\ Running /\ w_pc[w] = "poll" /\ whisper_buf_mutex = NoThread
    /\ windows < MaxWindows \/ Len(input_buffers[0]) < frames
    /\ whisper_buf_mutex' = w
    /\ w_pc' = [w_pc EXCEPT ![w] = "poll_cs"]
    /\ UNCHANGED <<gfVars, whisper_outbuf_mutex, whisper_ctx_mutex, a_pc, audio,
                   w_local, ctlVars, envVars, histVars>>

\* a faulty variant of EnoughData: any queued sample starts a window
EnoughDataAny(size) == size > 0

\* lines 605-621: enough data for a window? else sleep and go round the loop
EnoughData(size) == size >= frames

whisper_loop_poll(w) ==
    /\ Running /\ w_pc[w] = "poll_cs"
    /\ w_pc' = [w_pc EXCEPT ![w] =
                    IF EnoughData(Len(input_buffers[0])) THEN "proc" ELSE "loop"]
    /\ whisper_buf_mutex' = NoThread
    /\ UNCHANGED <<gfVars, whisper_outbuf_mutex, whisper_ctx_mutex, a_pc, audio,
                   w_local, ctlVars, envVars, histVars>>

\* line 395: std::lock_guard lock(whisper_buf_mutex)
process_audio_lock_buf(w) ==
    /\ Running /\ w_pc[w] = "proc" /\ whisper_buf_mutex = NoThread
    /\ whisper_buf_mutex' = w
    /\ w_pc' = [w_pc EXCEPT ![w] = "proc_cs"]
    /\ UNCHANGED <<gfVars, whisper_outbuf_mutex, whisper_ctx_mutex, a_pc, audio,
                   w_local, ctlVars, envVars, histVars>>

\* lines 397-402: the number of new frames wanted (size_t arithmetic)
HowManyFramesNeeded(last, of) ==
    IF last = 0 THEN frames
    ELSE IF of = Huge \/ of > frames THEN Huge ELSE frames - of

\* a faulty variant of TooBig: an info that fits exactly is pushed back too
TooBigStrict(num, needed) == needed # Huge /\ num >= needed

\* line 417: num_new_frames_from_infos > how_many_frames_needed
TooBig(num, needed) == needed # Huge /\ num > needed

\* a faulty variant of PopInfos: the info that overshoots is not put back
RECURSIVE PopInfosDropsOvershoot(_, _, _, _)
PopInfosDropsOvershoot(infos, num, ts, needed) ==
    IF infos = <<>>
    THEN [info_buffer |-> infos, num |-> num, ts |-> ts]
    ELSE LET info_from_buf == Head(infos)
             num1 == num + info_from_buf.frames
             ts1 == IF ts = 0 THEN info_from_buf.timestamp ELSE ts
         IN IF needed # Huge /\ num1 > needed
            THEN [info_buffer |-> Tail(infos), num |-> num, ts |-> ts1]
            ELSE PopInfosDropsOvershoot(Tail(infos), num1, ts1, needed)

\* lines 406-424: pop packet infos while the sum stays within the target; the
\* info that overshoots goes back to the front
RECURSIVE PopInfos(_, _, _, _)
PopInfos(infos, num, ts, needed) ==
    IF infos = <<>>
    THEN [info_buffer |-> infos, num |-> num, ts |-> ts]
    ELSE LET info_from_buf == Head(infos)
             num1 == num + info_from_buf.frames
             ts1 == IF ts = 0 THEN info_from_buf.timestamp ELSE ts
         IN IF TooBig(num1, needed)
            THEN [info_buffer |-> infos, num |-> num, ts |-> ts1]
            ELSE PopInfos(Tail(infos), num1, ts1, needed)

\* the memcpy of lines 430-433 done from the last element to the first
RECURSIVE BackAt(_, _, _, _)
BackAt(buf, d, of, i) ==
    IF d + i <= of THEN BackAt(buf, d, of, d + i) ELSE buf[d + i]

\* lines 430-433: the overlap head, copied from the tail of the last window,
\* front to back ("forward") or back to front ("backward").  Elements before
\* the start of the buffer read as Junk.
OverlapHead(buf, last, of, order) ==
    LET d == last - of
    IN [i \in 1 .. of |->
            IF order = "backward" THEN BackAt(buf, d, of, i)
            ELSE IF d + i >= 1 THEN buf[d + i] ELSE Junk]

\* what the memcpy of lines 430-433 can do: with a count beyond every buffer
\* it faults; reading before the buffer (overlap_frames > last_num_frames) it
\* reads junk or faults; with overlapping source and destination
\* (last_num_frames < 2 * overlap_frames) either copy order may be used
CopyOutcomes(last, of) ==
    IF last = 0 THEN {"forward"}
    ELSE IF of = Huge \/ of > frames THEN {"segv"}
    ELSE IF of > last THEN {"forward", "segv"}
    ELSE IF last - of > 0 /\ last - of < of THEN {"forward", "backward"}
    ELSE {"forward"}

\* lines 426-452: the window of channel c after Step 2
AssembleWindow(buf, ring, last, of, num, order) ==
    IF last > 0
    THEN OverlapHead(buf, last, of, order) \o PopFront(ring, num).data
    ELSE PopFront(ring, num).data

\* lines 448-452
NextLastNumFrames(last, of, num) == IF last > 0 THEN num + of ELSE num

\* lines 393-453 and 462-483: Steps 1 and 2 under the buffer mutex, then the
\* resampling, the VAD decision and the snapshot of the window
process_audio_assemble(w) ==
    /\ Running /\ w_pc[w] = "proc_cs"
    /\ whisper_buf_mutex' = NoThread
    /\ LET needed == HowManyFramesNeeded(last_num_frames, overlap_frames)
           popped == PopInfos(info_buffer, 0, 0, needed)
           num == popped.num
           first == IF num > 0 THEN Head(info_buffer).id ELSE 0
       IN \E order \in CopyOutcomes(last_num_frames, overlap_frames) :
          IF order = "segv"
          THEN /\ fatal' = "segv"
               /\ UNCHANGED <<info_buffer, input_buffers, copy_buffers,
                              copy_output_buffers, last_num_frames, w_pc, w_local>>
          ELSE /\ fatal' = fatal
               /\ info_buffer' = popped.info_buffer
               /\ input_buffers' = [c \in Channels |->
                                        PopFront(input_buffers[c], num).rest]
               /\ copy_buffers' = [c \in Channels |->
                        AssembleWindow(copy_buffers[c], input_buffers[c],
                                       last_num_frames, overlap_frames, num, order)]
               /\ copy_output_buffers' = copy_buffers'
               /\ last_num_frames' =
                        NextLastNumFrames(last_num_frames, overlap_frames, num)
               /\ \E skipped \in (IF vad_enabled THEN BOOLEAN ELSE {FALSE}) :
                    /\ w_local' = [w_local EXCEPT ![w] =
                            [num_new_frames_from_infos |-> num,
                             start_timestamp |-> popped.ts,
                             skipped_inference |-> skipped,
                             first_id |-> first]]
                    /\ w_pc' = [w_pc EXCEPT ![w] =
                            IF skipped THEN "publish" ELSE "infer"]
    /\ UNCHANGED <<active, whisper_context, whisper_model_path, whisper_thread,
                   overlap_ms, overlap_frames, info_out_buffer, output_buffers,
                   do_silence, vad_enabled, detect_regex, beep_regex, whisper_params,
                   whisper_outbuf_mutex, whisper_ctx_mutex, a_pc, audio,
                   ctlVars, envVars,
                   returned, accepted, pushes, windows, updates, freed>>


\* ------------------------------------------------------------------------
\* run_whisper_inference (called by the worker outside the buffer mutexes)
\* ------------------------------------------------------------------------
\* line 312: std::lock_guard lock(whisper_ctx_mutex); from here to the return
\* the ASR call is in flight
run_whisper_inference_lock(w) ==
    /\ Running /\ w_pc[w] = "infer" /\ whisper_ctx_mutex = NoThread
    /\ whisper_ctx_mutex' = w
    /\ w_pc' = [w_pc EXCEPT ![w] = "infer_cs"]
    /\ UNCHANGED <<gfVars, whisper_buf_mutex, whisper_outbuf_mutex, a_pc, audio,
                   w_local, ctlVars, envVars, histVars>>

\* lines 313-385: what the classifier returns for an outcome of the ASR call:
\* an exception or a non-zero code gives UNKNOWN, a transcript its class
DetectionResult(ctx, outcome) ==
    IF ctx = nullptr \/ outcome \in {"throw", "fail"} THEN UNKNOWN ELSE outcome

\* a faulty variant of TransformOutput: the do_silence setting is ignored
TransformOutputAlways(buf, num, result, silence) ==
    IF result = FILLER
    THEN [i \in 1 .. Len(buf) |-> IF i <= num THEN 0 ELSE buf[i]]
    ELSE IF result = BEEP
    THEN [i \in 1 .. Len(buf) |-> IF i <= num THEN BeepAt(i - 1) ELSE buf[i]]
    ELSE buf

\* lines 489-530: the transformation of the snapshot of one channel
TransformOutput(buf, num, result, silence) ==
    IF result = FILLER /\ silence
    THEN [i \in 1 .. Len(buf) |-> IF i <= num THEN 0 ELSE buf[i]]
    ELSE IF result = BEEP /\ silence
    THEN [i \in 1 .. Len(buf) |-> IF i <= num THEN BeepAt(i - 1) ELSE buf[i]]
    ELSE buf

\* lines 313-385 and 489-530: the ASR call returns, the mutex is released and
\* the result is applied to the snapshot
run_whisper_inference_done(w) ==
    /\ Running /\ w_pc[w] = "infer_cs"
    /\ \E outcome \in asr_stub :
         LET result == DetectionResult(whisper_context, outcome)
         IN /\ IF whisper_context # nullptr /\ outcome = "throw"
               THEN /\ ctx_live' = ctx_live \ {whisper_context}
                    /\ whisper_context' = nullptr
               ELSE UNCHANGED <<ctx_live, whisper_context>>
            /\ copy_output_buffers' = [c \in Channels |->
                    TransformOutput(copy_output_buffers[c],
                                    w_local[w].num_new_frames_from_infos,
                                    result, do_silence)]
    /\ whisper_ctx_mutex' = NoThread
    /\ w_pc' = [w_pc EXCEPT ![w] = "publish"]
    /\ UNCHANGED <<active, whisper_model_path, whisper_thread,
                   overlap_ms, overlap_frames, last_num_frames, copy_buffers,
                   info_buffer, info_out_buffer, input_buffers, output_buffers,
                   do_silence, vad_enabled, detect_regex, beep_regex, whisper_params,
                   whisper_buf_mutex, whisper_outbuf_mutex, a_pc, audio,
                   w_local, ctlVars,
                   models_on_disk, ctx_allocated, asr_stub, ts_base, push_limit, text, inference_result,
                   returned, accepted, pushes, windows, updates, fatal, freed>>

\* line 538: std::lock_guard lock(whisper_outbuf_mutex)
process_audio_lock_out(w) ==
    /\ Running /\ w_pc[w] = "publish" /\ whisper_outbuf_mutex = NoThread
    /\ whisper_outbuf_mutex' = w
    /\ w_pc' = [w_pc EXCEPT ![w] = "publish_cs"]
    /\ UNCHANGED <<gfVars, whisper_buf_mutex, whisper_ctx_mutex, a_pc, audio,
                   w_local, ctlVars, envVars, histVars>>

\* lines 560-562: the new data of the window in milliseconds
NewFramesMs(num) == (num * MSEC_PER_SEC) \div sample_rate

\* lines 566-580: the adaptive overlap.  overrun is duration > new_ms.
NextOverlapMs(ov, new_ms, overrun, skipped) ==
    IF overrun
    THEN U64Max(ov - OVERLAP_STEP_MSEC, MIN_OVERLAP_MSEC)
    ELSE IF ~skipped
    THEN U64Min(ov + OVERLAP_STEP_MSEC, (new_ms * 3) \div 4)
    ELSE ov

\* a faulty variant of PublishedSamples: one sample fewer than the published
\* info announces reaches the output ring
PublishedSamplesOneLess(buf, num) == Take(buf, num - 1)

\* lines 545-549: the samples of channel c pushed to the output ring
PublishedSamples(buf, num) == Take(buf, num)

\* lines 537-580: Step 7 under the output mutex, then the adaptive overlap
process_audio_publish(w) ==
    /\ Running /\ w_pc[w] = "publish_cs"
    /\ LET num == w_local[w].num_new_frames_from_infos
       IN /\ info_out_buffer' = Append(info_out_buffer,
                    [frames |-> num,
                     timestamp |-> w_local[w].start_timestamp,
                     id |-> w_local[w].first_id])
          /\ output_buffers' = [c \in Channels |->
                    output_buffers[c] \o
                    PublishedSamples(copy_output_buffers[c], num)]
          /\ \E overrun \in BOOLEAN :
               /\ overlap_ms' = NextOverlapMs(overlap_ms, NewFramesMs(num),
                                    overrun, w_local[w].skipped_inference)
               /\ overlap_frames' =
                    IF overrun \/ ~w_local[w].skipped_inference
                    THEN OverlapFramesOf(overlap_ms')
                    ELSE overlap_frames
    /\ whisper_outbuf_mutex' = NoThread
    /\ windows' = windows + 1
    /\ w_local' = [w_local EXCEPT ![w] = NoLocals]
    /\ w_pc' = [w_pc EXCEPT ![w] = "poll"]
    /\ UNCHANGED <<active, whisper_context, whisper_model_path, whisper_thread,
                   last_num_frames, copy_buffers, copy_output_buffers,
                   info_buffer, input_buffers,
                   do_silence, vad_enabled, detect_regex, beep_regex, whisper_params,
                   whisper_buf_mutex, whisper_ctx_mutex, a_pc, audio,
                   ctlVars, envVars,
                   returned, accepted, pushes, updates, fatal, freed>>

\* ------------------------------------------------------------------------
\* The classifier alone: one successful ASR call with any transcript and any
\* pair of patterns
\* ------------------------------------------------------------------------
InitClassify ==
    /\ InitFilter
    /\ do_silence = TRUE /\ vad_enabled = FALSE /\ whisper_params = 1
    /\ detect_regex \in Patterns
    /\ beep_regex \in Patterns
    /\ text \in Texts
    /\ inference_result = UNKNOWN
    /\ models_on_disk = {"tiny"}
    /\ asr_stub = {SPEECH}
    /\ ts_base = 1
    /\ push_limit = 0

\* lines 333-385: whisper_full returned 0 and the transcript is classified
run_whisper_inference_classify ==
    /\ Running /\ inference_result = UNKNOWN
    /\ inference_result' = Classify(text, detect_regex, beep_regex)
    /\ UNCHANGED <<gfVars, mutexVars, threadVars, models_on_disk, ctx_allocated,
                   ctx_live, asr_stub, ts_base, push_limit, text, histVars>>

SpecClassify == InitClassify /\ [][run_whisper_inference_classify]_vars

\* ------------------------------------------------------------------------
\* The audio path alone: pushes and the worker
\* ------------------------------------------------------------------------
AudioStep ==
    \/ \E n \in PacketFrames : filter_audio_enter(n)
    \/ filter_audio_lock_buf
    \/ filter_audio_append
    \/ filter_audio_lock_out
    \/ filter_audio_pop

WorkerStep ==
    \E w \in Workers :
        \/ whisper_loop_lock_ctx(w)
        \/ whisper_loop_check(w)
        \/ whisper_loop_lock_buf(w)
        \/ whisper_loop_poll(w)
        \/ process_audio_lock_buf(w)
        \/ process_audio_assemble(w)
        \/ run_whisper_inference_lock(w)
        \/ run_whisper_inference_done(w)
        \/ process_audio_lock_out(w)
        \/ process_audio_publish(w)



\* ------------------------------------------------------------------------
\* The control thread: activate, deactivate, update, download completion,
\* destroy.  The host calls them one at a time.
\* ------------------------------------------------------------------------
\* lines 892-904
cleanstream_activate ==
    /\ Running /\ c_pc = "idle" /\ ~active
    /\ active' = TRUE
    /\ UNCHANGED <<whisper_context, whisper_model_path, whisper_thread,
                   windowVars, ringVars, do_silence, vad_enabled, detect_regex, beep_regex, whisper_params,
                   mutexVars, threadVars, envVars, histVars>>

cleanstream_deactivate ==
    /\ Running /\ c_pc = "idle" /\ active
    /\ active' = FALSE
    /\ UNCHANGED <<whisper_context, whisper_model_path, whisper_thread,
                   windowVars, ringVars, do_silence, vad_enabled, detect_regex, beep_regex, whisper_params,
                   mutexVars, threadVars, envVars, histVars>>

\* lines 746-755: the scalar settings are stored, the model path is compared
cleanstream_update_enter(s, path) ==
    /\ Running /\ c_pc = "idle"
    /\ updates < MaxUpdates
    /\ updates' = updates + 1
    /\ do_silence' = s.do_silence
    /\ vad_enabled' = s.vad_enabled
    /\ detect_regex' = s.detect_regex
    /\ beep_regex' = s.beep_regex
    /\ c_new_params' = s.whisper_params
    /\ c_new_path' = path
    /\ c_pc' = IF path # whisper_model_path THEN "upd_reload" ELSE "upd_params"
    /\ UNCHANGED <<active, whisper_context, whisper_model_path, whisper_thread,
                   windowVars, ringVars, whisper_params, mutexVars, audioVars,
                   w_pc, w_local, downloads, envVars,
                   returned, accepted, pushes, windows, fatal, freed>>

\* line 758: the context pointer is read before the mutex is taken
cleanstream_update_reload ==
    /\ Running /\ c_pc = "upd_reload"
    /\ c_pc' = IF whisper_context # nullptr THEN "upd_free" ELSE "upd_join"
    /\ UNCHANGED <<gfVars, mutexVars, audioVars, w_pc, w_local, c_new_path,
                   c_new_params, downloads, envVars,
                   returned, accepted, pushes, windows, updates, fatal, freed>>

\* line 760: std::lock_guard lock(whisper_ctx_mutex)
cleanstream_update_lock_free ==
    /\ Running /\ c_pc = "upd_free" /\ whisper_ctx_mutex = NoThread
    /\ whisper_ctx_mutex' = "ctl"
    /\ c_pc' = "upd_free_cs"
    /\ UNCHANGED <<gfVars, whisper_buf_mutex, whisper_outbuf_mutex, audioVars,
                   w_pc, w_local, c_new_path, c_new_params, downloads, envVars,
                   histVars>>

\* whisper_free(ctx): freeing a context that is not live is a double free
FreeIsFatal(ctx) == ctx # nullptr /\ ctx \notin ctx_live

\* lines 761-762: free the context and null the pointer
cleanstream_update_free ==
    /\ Running /\ c_pc = "upd_free_cs"
    /\ fatal' = IF FreeIsFatal(whisper_context) THEN "double_free" ELSE fatal
    /\ ctx_live' = ctx_live \ {whisper_context}
    /\ whisper_context' = nullptr
    /\ whisper_ctx_mutex' = NoThread
    /\ c_pc' = "upd_join"
    /\ UNCHANGED <<active, whisper_model_path, whisper_thread,
                   windowVars, ringVars, do_silence, vad_enabled, detect_regex, beep_regex, whisper_params,
                   whisper_buf_mutex, whisper_outbuf_mutex, audioVars,
                   w_pc, w_local, c_new_path, c_new_params, downloads,
                   models_on_disk, ctx_allocated, asr_stub, ts_base, push_limit, text, inference_result,
                   returned, accepted, pushes, windows, updates, freed>>

\* lines 764-766: join the worker if the handle is joinable
cleanstream_update_join ==
    /\ Running /\ c_pc = "upd_join"
    /\ IF whisper_thread = NoThread
       THEN UNCHANGED <<whisper_thread, w_pc>>
       ELSE /\ w_pc[whisper_thread] = "exited"
            /\ w_pc' = [w_pc EXCEPT ![whisper_thread] = "unborn"]
            /\ whisper_thread' = NoThread
    /\ c_pc' = "upd_load"
    /\ UNCHANGED <<active, whisper_context, whisper_model_path,
                   windowVars, ringVars, do_silence, vad_enabled, detect_regex, beep_regex, whisper_params,
                   mutexVars, audioVars, w_local, c_new_path, c_new_params,
                   downloads, envVars, histVars>>

\* a worker identity that is free to be started
FreeWorkers == {w \in Workers : w_pc[w] = "unborn"}
NewWorker == CHOOSE w \in FreeWorkers : TRUE

\* init_whisper_context, lines 237-283: a new context, or null when the model
\* cannot be loaded
LoadOutcomes(path) ==
    IF path \in models_on_disk THEN {TRUE, FALSE} ELSE {FALSE}

\* lines 767-787: the new path is stored; a missing model starts a download,
\* a present one is loaded and a worker is started
cleanstream_update_load ==
    /\ Running /\ c_pc = "upd_load"
    /\ whisper_model_path' = c_new_path
    /\ IF c_new_path \notin models_on_disk
       THEN /\ downloads' = Append(downloads, c_new_path)
            /\ UNCHANGED <<whisper_context, whisper_thread, w_pc, ctx_allocated,
                           ctx_live>>
       ELSE /\ FreeWorkers # {}
            /\ \E loaded \in LoadOutcomes(c_new_path) :
                 IF loaded
                 THEN /\ whisper_context' = ctx_allocated + 1
                      /\ ctx_allocated' = ctx_allocated + 1
                      /\ ctx_live' = ctx_live \cup {ctx_allocated + 1}
                 ELSE /\ whisper_context' = nullptr
                      /\ UNCHANGED <<ctx_allocated, ctx_live>>
            /\ whisper_thread' = NewWorker
            /\ w_pc' = [w_pc EXCEPT ![NewWorker] = "loop"]
            /\ UNCHANGED downloads
    /\ c_pc' = "upd_params"
    /\ UNCHANGED <<active, windowVars, ringVars, do_silence, vad_enabled, detect_regex, beep_regex,
                   whisper_params, mutexVars, audioVars, w_local, c_new_path,
                   c_new_params, models_on_disk, asr_stub, ts_base, push_limit, text, inference_result,
                   returned, accepted, pushes, windows, updates, fatal, freed>>

\* line 790: std::lock_guard lock(whisper_ctx_mutex)
cleanstream_update_lock_params ==
    /\ Running /\ c_pc = "upd_params" /\ whisper_ctx_mutex = NoThread
    /\ whisper_ctx_mutex' = "ctl"
    /\ c_pc' = "upd_params_cs"
    /\ UNCHANGED <<gfVars, whisper_buf_mutex, whisper_outbuf_mutex, audioVars,
                   w_pc, w_local, c_new_path, c_new_params, downloads, envVars,
                   histVars>>

\* a faulty variant of cleanstream_update_params: the window state is reset
\* as well, as if every update restarted the windowing
cleanstream_update_params_resets_window ==
    /\ Running /\ c_pc = "upd_params_cs"
    /\ whisper_params' = c_new_params
    /\ last_num_frames' = 0
    /\ whisper_ctx_mutex' = NoThread
    /\ c_pc' = "idle"
    /\ UNCHANGED <<active, whisper_context, whisper_model_path, whisper_thread,
                   overlap_ms, overlap_frames, copy_buffers, copy_output_buffers,
                   ringVars, do_silence, vad_enabled, detect_regex, beep_regex,
                   whisper_buf_mutex, whisper_outbuf_mutex, audioVars,
                   w_pc, w_local, c_new_path, c_new_params, downloads, envVars,
                   histVars>>

\* lines 792-818: the ASR parameters are rebuilt from the settings
cleanstream_update_params ==
    /\ Running /\ c_pc = "upd_params_cs"
    /\ whisper_params' = c_new_params
    /\ whisper_ctx_mutex' = NoThread
    /\ c_pc' = "idle"
    /\ UNCHANGED <<active, whisper_context, whisper_model_path, whisper_thread,
                   windowVars, ringVars, do_silence, vad_enabled, detect_regex, beep_regex,
                   whisper_buf_mutex, whisper_outbuf_mutex, audioVars,
                   w_pc, w_local, c_new_path, c_new_params, downloads, envVars,
                   histVars>>



\* lines 773-782: the download dialog reports completion on the control
\* thread.  On success the context is loaded from the current model path and
\* a worker is started; assigning it to a handle that is still joinable
\* terminates the process.  After destroy the callback uses freed memory.
download_finished(status) ==
    /\ Running /\ c_pc \in {"idle", "destroyed"} /\ downloads # <<>>
    /\ downloads' = Tail(downloads)
    /\ IF status # 0
       THEN UNCHANGED <<whisper_context, whisper_thread, w_pc, ctx_allocated,
                        ctx_live, models_on_disk, fatal>>
       ELSE IF c_pc = "destroyed"
       THEN /\ fatal' = "use_after_free"
            /\ UNCHANGED <<whisper_context, whisper_thread, w_pc, ctx_allocated,
                           ctx_live, models_on_disk>>
       ELSE /\ FreeWorkers # {}
            /\ models_on_disk' = models_on_disk \cup {Head(downloads)}
            /\ \E loaded \in (IF whisper_model_path \in models_on_disk'
                              THEN {TRUE, FALSE} ELSE {FALSE}) :
                 IF loaded
                 THEN /\ whisper_context' = ctx_allocated + 1
                      /\ ctx_allocated' = ctx_allocated + 1
                      /\ ctx_live' = ctx_live \cup {ctx_allocated + 1}
                 ELSE /\ whisper_context' = nullptr
                      /\ UNCHANGED <<ctx_allocated, ctx_live>>
            /\ w_pc' = [w_pc EXCEPT ![NewWorker] = "loop"]
            /\ IF whisper_thread # NoThread
               THEN /\ fatal' = "terminate"
                    /\ UNCHANGED whisper_thread
               ELSE /\ whisper_thread' = NewWorker
                    /\ UNCHANGED fatal
    /\ UNCHANGED <<active, whisper_model_path, windowVars, ringVars, do_silence,
                   vad_enabled, detect_regex, beep_regex, whisper_params, mutexVars, audioVars, w_local,
                   c_pc, c_new_path, c_new_params, asr_stub, ts_base, push_limit, text, inference_result,
                   returned, accepted, pushes, windows, updates, freed>>

\* cleanstream_destroy, line 705: the host destroys the filter when no other
\* call into it is running
cleanstream_destroy_enter ==
    /\ Running /\ c_pc = "idle" /\ a_pc = "idle"
    /\ c_pc' = "d_lock"
    /\ UNCHANGED <<gfVars, mutexVars, audioVars, w_pc, w_local, c_new_path,
                   c_new_params, downloads, envVars, histVars>>

\* line 711: std::lock_guard lock(whisper_ctx_mutex)
cleanstream_destroy_lock_ctx ==
    /\ Running /\ c_pc = "d_lock" /\ whisper_ctx_mutex = NoThread
    /\ whisper_ctx_mutex' = "ctl"
    /\ c_pc' = "d_null"
    /\ UNCHANGED <<gfVars, whisper_buf_mutex, whisper_outbuf_mutex, audioVars,
                   w_pc, w_local, c_new_path, c_new_params, downloads, envVars,
                   histVars>>

\* lines 712-716: free the context and null the pointer
cleanstream_destroy_null ==
    /\ Running /\ c_pc = "d_null"
    /\ fatal' = IF FreeIsFatal(whisper_context) THEN "double_free" ELSE fatal
    /\ ctx_live' = ctx_live \ {whisper_context}
    /\ whisper_context' = nullptr
    /\ whisper_ctx_mutex' = NoThread
    /\ c_pc' = "d_join"
    /\ UNCHANGED <<active, whisper_model_path, whisper_thread,
                   windowVars, ringVars, do_silence, vad_enabled, detect_regex, beep_regex, whisper_params,
                   whisper_buf_mutex, whisper_outbuf_mutex, audioVars,
                   w_pc, w_local, c_new_path, c_new_params, downloads,
                   models_on_disk, ctx_allocated, asr_stub, ts_base, push_limit, text, inference_result,
                   returned, accepted, pushes, windows, updates, freed>>

\* a faulty variant of cleanstream_destroy_join: destroy goes on to free the
\* buffers without waiting for the worker
cleanstream_destroy_skips_join ==
    /\ Running /\ c_pc = "d_join"
    /\ c_pc' = "d_lock_buf"
    /\ UNCHANGED <<gfVars, mutexVars, audioVars, w_pc, w_local, c_new_path,
                   c_new_params, downloads, envVars, histVars>>

\* line 718: gf->whisper_thread.join(), which throws when the handle is not
\* joinable
cleanstream_destroy_join ==
    /\ Running /\ c_pc = "d_join"
    /\ IF whisper_thread = NoThread
       THEN /\ fatal' = "terminate"
            /\ UNCHANGED <<whisper_thread, w_pc, c_pc>>
       ELSE /\ w_pc[whisper_thread] = "exited"
            /\ w_pc' = [w_pc EXCEPT ![whisper_thread] = "unborn"]
            /\ whisper_thread' = NoThread
            /\ c_pc' = "d_lock_buf"
            /\ UNCHANGED fatal
    /\ UNCHANGED <<active, whisper_context, whisper_model_path,
                   windowVars, ringVars, do_silence, vad_enabled, detect_regex, beep_regex, whisper_params,
                   mutexVars, audioVars, w_local, c_new_path, c_new_params,
                   downloads, envVars,
                   returned, accepted, pushes, windows, updates, freed>>

\* line 725: std::lock_guard lockbuf(whisper_buf_mutex)
cleanstream_destroy_lock_buf ==
    /\ Running /\ c_pc = "d_lock_buf" /\ whisper_buf_mutex = NoThread
    /\ whisper_buf_mutex' = "ctl"
    /\ c_pc' = "d_lock_out"
    /\ UNCHANGED <<gfVars, whisper_outbuf_mutex, whisper_ctx_mutex, audioVars,
                   w_pc, w_local, c_new_path, c_new_params, downloads, envVars,
                   histVars>>

\* line 726: std::lock_guard lockoutbuf(whisper_outbuf_mutex)
cleanstream_destroy_lock_out ==
    /\ Running /\ c_pc = "d_lock_out" /\ whisper_outbuf_mutex = NoThread
    /\ whisper_outbuf_mutex' = "ctl"
    /\ c_pc' = "d_free"
    /\ UNCHANGED <<gfVars, whisper_buf_mutex, whisper_ctx_mutex, audioVars,
                   w_pc, w_local, c_new_path, c_new_params, downloads, envVars,
                   histVars>>

\* lines 724-735: the sample rings and the staging buffers are freed under
\* both buffer mutexes, which are released at the end of the block
cleanstream_destroy_free ==
    /\ Running /\ c_pc = "d_free"
    /\ freed' = TRUE
    /\ input_buffers' = [c \in Channels |-> <<>>]
    /\ output_buffers' = [c \in Channels |-> <<>>]
    /\ copy_buffers' = [c \in Channels |-> <<>>]
    /\ copy_output_buffers' = [c \in Channels |-> <<>>]
    /\ whisper_buf_mutex' = NoThread
    /\ whisper_outbuf_mutex' = NoThread
    /\ c_pc' = "d_free_info"
    /\ UNCHANGED <<active, whisper_context, whisper_model_path, whisper_thread,
                   overlap_ms, overlap_frames, last_num_frames,
                   info_buffer, info_out_buffer,
                   do_silence, vad_enabled, detect_regex, beep_regex, whisper_params, whisper_ctx_mutex,
                   audioVars, w_pc, w_local, c_new_path, c_new_params, downloads,
                   envVars, returned, accepted, pushes, windows, updates,
                   fatal>>

\* lines 736-739: the packet info rings and the filter itself are freed, with
\* no mutex held
cleanstream_destroy_free_info ==
    /\ Running /\ c_pc = "d_free_info"
    /\ info_buffer' = <<>>
    /\ info_out_buffer' = <<>>
    /\ c_pc' = "destroyed"
    /\ UNCHANGED <<active, whisper_context, whisper_model_path, whisper_thread,
                   windowVars, input_buffers, output_buffers,
                   do_silence, vad_enabled, detect_regex, beep_regex, whisper_params, mutexVars,
                   audioVars, w_pc, w_local, c_new_path, c_new_params, downloads,
                   envVars, histVars>>

ControlStep ==
    \/ cleanstream_activate
    \/ cleanstream_deactivate
    \/ \E s \in SettingsChoices, path \in ModelPaths :
            cleanstream_update_enter(s, path)
    \/ cleanstream_update_reload
    \/ cleanstream_update_lock_free
    \/ cleanstream_update_free
    \/ cleanstream_update_join
    \/ cleanstream_update_load
    \/ cleanstream_update_lock_params
    \/ cleanstream_update_params
    \/ \E status \in {0, 1} : download_finished(status)
    \/ cleanstream_destroy_enter
    \/ cleanstream_destroy_lock_ctx
    \/ cleanstream_destroy_null
    \/ cleanstream_destroy_join
    \/ cleanstream_destroy_lock_buf
    \/ cleanstream_destroy_lock_out
    \/ cleanstream_destroy_free
    \/ cleanstream_destroy_free_info

NextStub == AudioStep \/ WorkerStep
NextAudio == AudioStep \/ WorkerStep \/ cleanstream_activate \/ cleanstream_deactivate
SpecAudio == InitAudio /\ [][NextAudio]_vars
SpecStub == InitStub /\ [][NextStub]_vars

Next == AudioStep \/ WorkerStep \/ ControlStep

Spec == Init /\ [][Next]_vars

\* ------------------------------------------------------------------------
\* What the host has received, and the frames still inside the filter
\* ------------------------------------------------------------------------
IsProcessed(p) == ~p.verbatim

\* the packets popped from the output rings, in the order they were returned
Processed == SelectSeq(returned, IsProcessed)

RECURSIVE SamplesOf(_, _)
SamplesOf(pkts, c) ==
    IF pkts = <<>> THEN <<>> ELSE Head(pkts).data[c] \o SamplesOf(Tail(pkts), c)

\* the output stream of channel c: what was returned, then what is queued
OutputStream(c) == SamplesOf(Processed, c) \o output_buffers[c]

\* every output packet: returned by push or still queued in the output rings
OutputPackets == Processed \o info_out_buffer

RECURSIVE InFlightFrames(_)
InFlightFrames(ws) ==
    IF ws = <<>> THEN 0
    ELSE w_local[Head(ws)].num_new_frames_from_infos + InFlightFrames(Tail(ws))

\* no frame is in the rings or in a window, and no push is under way
Drained ==
    /\ a_pc = "idle"
    /\ \A w \in Workers : w_pc[w] \notin {"proc_cs", "infer", "infer_cs",
                                          "publish", "publish_cs"}
    /\ info_buffer = <<>> /\ info_out_buffer = <<>>
    /\ \A c \in Channels : input_buffers[c] = <<>> /\ output_buffers[c] = <<>>

\* the pushes have stopped and the worker has nothing it will process
Stopped ==
    /\ pushes = push_limit /\ a_pc = "idle"
    /\ \A w \in Workers : w_pc[w] \in {"unborn", "exited", "loop", "loop_cs",
                                       "poll", "poll_cs"}
    /\ ~EnoughData(Len(input_buffers[0]))

\* ------------------------------------------------------------------------
\* Claims
\* ------------------------------------------------------------------------

\* C1: with the ASR stubbed to one class, the samples of all output packets
\* (returned, then queued) are a prefix of the pushed sample stream: the i-th
\* output sample of a channel is the i-th sample pushed into it.
C1_OutputIsInputPrefix ==
    \A c \in Channels :
        \A i \in 1 .. Len(OutputStream(c)) : OutputStream(c)[i] = SampleOf(c, i)

\* C2: every output packet that consumed input carries the timestamp of the
\* first input packet consumed into its window.
C2_TimestampOfFirstPacket ==
    \A i \in 1 .. Len(OutputPackets) :
        OutputPackets[i].id # 0 =>
            OutputPackets[i].timestamp = TimestampOf(OutputPackets[i].id)

\* C3 as stated, second half: once the pushes have stopped and the worker has
\* no window left to process, nothing remains in the input or output rings.
C3_StoppedStreamDrains == Stopped => Drained

\* C3, the part that holds: the frames accepted by push are at every moment
\* the frames returned in processed packets plus the frames in the input ring,
\* in the window being processed and in the output ring; so in a drained
\* state the frames returned equal the frames accepted.
C3_FramesConserved ==
    /\ accepted = SumFrames(Processed) + Len(input_buffers[0])
                    + InFlightFrames(WorkerOrder) + Len(output_buffers[0])
    /\ Drained => SumFrames(Processed) = accepted

\* a drained state in which a window of frames went through the filter
C3_DrainedAfterWindow == Drained /\ accepted >= frames /\ Processed # <<>>

\* C4: the packets returned by push, processed or verbatim, come out in the
\* order in which their first contributing input packet was pushed.
C4_ReturnedInPushOrder ==
    \A i, j \in 1 .. Len(returned) :
        (i < j /\ returned[i].id # 0 /\ returned[j].id # 0)
            => returned[i].id < returned[j].id

\* the step of worker w that ends a process_audio_from_buffer invocation
PublishBy(w) == w_pc[w] = "publish_cs" /\ w_pc'[w] = "poll"

\* C5: after every process_audio_from_buffer invocation overlap_ms is at
\* least 100 and at most 0.75 * new_ms, new_ms being the new data of that
\* window in milliseconds.
C5_OverlapWithinBounds ==
    [][\A w \in Workers :
        PublishBy(w) =>
            /\ ~U64Less(overlap_ms', MIN_OVERLAP_MSEC)
            /\ ~U64Less((NewFramesMs(w_local[w].num_new_frames_from_infos) * 3)
                            \div 4, overlap_ms')]_vars

\* C6: with the buffer mutex free the frames of the input packet infos sum to
\* the samples queued in every input channel, with the output mutex free the
\* same holds of the output side, and the channels of a ring always hold the
\* same number of samples.
C6_MetaMatchesRings ==
    /\ \A c \in Channels :
        /\ Len(input_buffers[c]) = Len(input_buffers[0])
        /\ Len(output_buffers[c]) = Len(output_buffers[0])
    /\ whisper_buf_mutex = NoThread =>
        \A c \in Channels : SumFrames(info_buffer) = Len(input_buffers[c])
    /\ whisper_outbuf_mutex = NoThread =>
        \A c \in Channels : SumFrames(info_out_buffer) = Len(output_buffers[c])

\* a window has taken a 2-frame packet and pushed the 10-frame packet behind
\* it back to the front, and an earlier window is queued for output
C6_AfterPushBack ==
    /\ whisper_buf_mutex = NoThread /\ whisper_outbuf_mutex = NoThread
    /\ \E w \in Workers :
        /\ w_pc[w] \in {"infer", "publish"}
        /\ w_local[w].num_new_frames_from_infos = 2
    /\ info_buffer # <<>> /\ Head(info_buffer).frames = frames
    /\ info_out_buffer # <<>> /\ Head(info_out_buffer).frames > 0

\* ------------------------------------------------------------------------
\* Threads and what they wait for
\* ------------------------------------------------------------------------
Threads == {"audio", "ctl"} \cup Workers
Mutexes == {"buf", "out", "ctx"}

MutexHolder(m) ==
    CASE m = "buf" -> whisper_buf_mutex
      [] m = "out" -> whisper_outbuf_mutex
      [] OTHER -> whisper_ctx_mutex

HeldBy(t) == {m \in Mutexes : MutexHolder(m) = t}

\* the mutex whose lock_guard is the next step of thread t
WaitsForMutex(t) ==
    IF t = "audio"
    THEN CASE a_pc = "buf" -> "buf" [] a_pc = "out" -> "out" [] OTHER -> "none"
    ELSE IF t = "ctl"
    THEN CASE c_pc \in {"upd_free", "upd_params", "d_lock"} -> "ctx"
           [] c_pc = "d_lock_buf" -> "buf"
           [] c_pc = "d_lock_out" -> "out"
           [] OTHER -> "none"
    ELSE CASE w_pc[t] \in {"loop", "infer"} -> "ctx"
           [] w_pc[t] \in {"poll", "proc"} -> "buf"
           [] w_pc[t] = "publish" -> "out"
           [] OTHER -> "none"

\* the control thread is in whisper_thread.join() of update or destroy
Joining == c_pc \in {"upd_join", "d_join"} /\ whisper_thread # NoThread

\* the thread that thread t is blocked on: the holder of the mutex it wants,
\* or the worker it joins; NoThread when t can run
BlockedOn(t) ==
    IF WaitsForMutex(t) # "none" /\ MutexHolder(WaitsForMutex(t)) # NoThread
    THEN MutexHolder(WaitsForMutex(t))
    ELSE IF t = "ctl" /\ Joining /\ w_pc[whisper_thread] # "exited"
    THEN whisper_thread
    ELSE NoThread

\* following what t is blocked on leads, within n threads, to one that can run
RECURSIVE WaitChainEnds(_, _)
WaitChainEnds(t, n) ==
    \/ BlockedOn(t) = NoThread
    \/ n > 0 /\ WaitChainEnds(BlockedOn(t), n - 1)

\* C7: a thread holds at most one mutex, except destroy holding the buffer
\* mutex and then the output mutex; the control thread holds no mutex while
\* it joins the worker; and no set of threads waits in a cycle (every chain of
\* blocked threads ends at a thread that can run).
C7_LockDiscipline ==
    /\ \A t \in Threads :
        \/ Cardinality(HeldBy(t)) <= 1
        \/ t = "ctl" /\ c_pc = "d_free" /\ HeldBy(t) = {"buf", "out"}
    /\ whisper_outbuf_mutex = "ctl" => whisper_buf_mutex = "ctl"
    /\ c_pc \in {"upd_join", "d_join"} => HeldBy("ctl") = {}
    /\ \A t \in Threads : WaitChainEnds(t, Cardinality(Threads))

\* destroy holds the buffer mutex and the output mutex together
C7_DestroyHoldsBoth ==
    c_pc = "d_free" /\ HeldBy("ctl") = {"buf", "out"} /\ fatal = "none"

\* the steps that read or write gf->whisper_context or gf->whisper_params:
\* line 642 (push), lines 594 and 313-328 (worker), lines 758, 761-762, 776,
\* 785, 792-818 (update and the download callback), lines 712-715 (destroy)
AudioAccess == a_pc = "idle" /\ pushes' # pushes /\ active
WorkerAccess(w) == w_pc[w] \in {"loop_cs", "infer_cs"} /\ w_pc'[w] # w_pc[w]
CtlAccess ==
    \/ c_pc' # c_pc /\ c_pc \in {"upd_reload", "upd_free_cs", "upd_params_cs",
                                 "d_null"}
    \/ c_pc = "upd_load" /\ c_pc' # c_pc /\ c_new_path \in models_on_disk
    \/ Len(downloads') < Len(downloads) /\ w_pc' # w_pc

\* C8: every step that reads or writes the context pointer or the ASR
\* parameters is taken by a thread that holds the context mutex.
C8_ContextUnderCtxMutex ==
    [][/\ AudioAccess => whisper_ctx_mutex = "audio"
       /\ \A w \in Workers : WorkerAccess(w) => whisper_ctx_mutex = w
       /\ CtlAccess => whisper_ctx_mutex = "ctl"]_vars

\* the workers that have been started and have not left whisper_loop
LiveWorkers == {w \in Workers : w_pc[w] \notin {"unborn", "exited"}}

\* C9: at most one worker thread is alive at any time, so a new worker is
\* started only after the previous one has exited.
C9_SingleWorker == Cardinality(LiveWorkers) <= 1

\* a pass of the inner loop of whisper_loop that consumed nothing and leaves
\* the loop condition true with the front packet again too big for the next
\* pass
FruitlessPass(w) ==
    /\ PublishBy(w)
    /\ w_local[w].num_new_frames_from_infos = 0
    /\ EnoughData(Len(input_buffers[0]))
    /\ info_buffer # <<>>
    /\ TooBig(Head(info_buffer).frames,
              HowManyFramesNeeded(last_num_frames, overlap_frames'))

\* C10: once the context is null the worker is on its way out of its loop:
\* every pass of the inner loop it still makes consumes input, or leaves the
\* worker able to consume or to fall out of the inner loop and see the null.
C10_CancelledWorkerLeaves ==
    [][\A w \in Workers : whisper_context = nullptr => ~FruitlessPass(w)]_vars

Last(seq) == seq[Len(seq)]

\* a call of cleanstream_filter_audio that finds the filter inactive or
\* without a context
PassThroughPush ==
    /\ pushes' = pushes + 1
    /\ ~active \/ whisper_context = nullptr

\* C11: a push on an inactive filter, or on one whose context is null,
\* returns the packet itself and leaves the four rings as they were.
C11_PassThroughLeavesRings ==
    [][PassThroughPush =>
        /\ UNCHANGED <<info_buffer, info_out_buffer, input_buffers,
                       output_buffers>>
        /\ a_pc' = "idle"
        /\ Len(returned') = Len(returned) + 1
        /\ SubSeq(returned', 1, Len(returned)) = returned
        /\ Last(returned').verbatim
        /\ Last(returned').id = pushes'
        /\ Last(returned').timestamp = TimestampOf(pushes')
        /\ Last(returned').frames \in PacketFrames]_vars

\* a packet came back verbatim from an active filter whose context is null,
\* with packets queued on the input and on the output side
C11_PassThroughWithQueues ==
    /\ returned # <<>> /\ Last(returned).verbatim
    /\ active /\ whisper_context = nullptr
    /\ info_buffer # <<>> /\ info_out_buffer # <<>>

\* the steps of a push that was accepted: the append and the pop
AppendStep == a_pc = "buf_cs" /\ a_pc' = "out"
PopStep == a_pc = "out_cs" /\ a_pc' = "idle"

\* C12: an accepted push appends the packet's samples to every input channel
\* and one packet info to the input infos; then it returns nothing when the
\* output infos are empty, and otherwise pops one info and that many samples
\* of every output channel and returns them with the info's frames and
\* timestamp.  A push returns at most one packet.
C12_PushAppendsAndPopsOne ==
    [][/\ AppendStep =>
            /\ \A c \in Channels :
                input_buffers'[c] = input_buffers[c] \o
                    [i \in 1 .. audio.frames |-> SampleOf(c, accepted + i)]
            /\ info_buffer' = Append(info_buffer,
                    [frames |-> audio.frames, timestamp |-> audio.timestamp,
                     id |-> audio.id])
            /\ UNCHANGED <<info_out_buffer, output_buffers, returned>>
       /\ (PopStep /\ info_out_buffer = <<>>) =>
            UNCHANGED <<info_out_buffer, output_buffers, returned,
                        info_buffer, input_buffers>>
       /\ (PopStep /\ info_out_buffer # <<>>) =>
            LET info_out == Head(info_out_buffer)
            IN /\ info_out_buffer' = Tail(info_out_buffer)
               /\ \A c \in Channels :
                    /\ Len(output_buffers[c]) >= info_out.frames
                    /\ output_buffers'[c] =
                            Drop(output_buffers[c], info_out.frames)
                    /\ Last(returned').data[c] =
                            Take(output_buffers[c], info_out.frames)
               /\ Len(returned') = Len(returned) + 1
               /\ Last(returned').frames = info_out.frames
               /\ Last(returned').timestamp = info_out.timestamp
               /\ UNCHANGED <<info_buffer, input_buffers>>
       /\ Len(returned') <= pushes']_vars

\* a push has just returned a processed packet with samples in it, and its
\* own packet is queued on the input side
C12_PoppedAPacket ==
    /\ a_pc = "idle" /\ returned # <<>>
    /\ ~Last(returned).verbatim /\ Last(returned).frames > 0
    /\ info_buffer # <<>> /\ Last(info_buffer).id = pushes

\* C13: the worker starts a window, pops input and publishes a packet only
\* when a full window of samples is queued (which is at least frames -
\* overlap_frames for the windows after the first); with fewer queued its
\* poll goes back to the outer loop and nothing is popped or published.
C13_NoWindowBeforeEnoughInput ==
    [][\A w \in Workers :
        /\ (w_pc[w] = "poll_cs" /\ w_pc'[w] # "poll_cs") =>
              (w_pc'[w] = "proc") = (Len(input_buffers[0]) >= frames)
        /\ (w_pc[w] = "poll_cs" /\ w_pc'[w] = "loop") =>
              UNCHANGED <<info_buffer, info_out_buffer, input_buffers,
                          output_buffers>>
        /\ (w_pc[w] = "proc_cs" /\ w_pc'[w] # "proc_cs") =>
              \A c \in Channels : Len(input_buffers[c]) >= frames
        /\ Len(info_out_buffer') > Len(info_out_buffer) => accepted >= frames]_vars

\* a second window has been published, with new frames in it
C13_SecondWindowPublished ==
    /\ windows = 2 /\ info_out_buffer # <<>>
    /\ Last(info_out_buffer).frames > 0
    /\ last_num_frames > Last(info_out_buffer).frames

\* a step that loads a context: update with a model on disk (line 786) or the
\* completion of a download (lines 776-777)
ReloadLoaded == whisper_context = nullptr /\ whisper_context' # nullptr

\* C14: when an update that changed the model path has loaded the new
\* context, the window state is reset: last_num_frames is 0, so that the new
\* worker's first window is a first window.
C14_ReloadResetsWindowState ==
    [][ReloadLoaded => last_num_frames' = 0]_vars

\* lines 323-328: the handler of an exception of the ASR call
AsrThrew(w) ==
    /\ w_pc[w] = "infer_cs" /\ w_pc'[w] = "publish"
    /\ whisper_context # nullptr /\ whisper_context' = nullptr

\* C15: the handler of an ASR exception frees and nulls the context under the
\* context mutex and the window counts as UNKNOWN (its samples are left as
\* they are); from then on every push is returned verbatim and nothing that
\* runs later ends in a fatal error.
C15_AfterAsrException ==
    [][/\ \A w \in Workers : AsrThrew(w) =>
            /\ whisper_ctx_mutex = w
            /\ whisper_context \notin ctx_live'
            /\ copy_output_buffers' = copy_output_buffers
       /\ whisper_context = nullptr =>
            /\ fatal' = "none"
            /\ pushes' # pushes => Last(returned').verbatim]_vars

\* C16: a packet published by the worker is returned by a later push as long
\* as the host keeps pushing, also once the filter has fallen into
\* pass-through.  Where nothing restores the context, a context that is null
\* stays null and every later push takes the pass-through return, so the
\* claim requires that no push on a null context leaves a published packet
\* behind.
C16_PublishedIsReturned ==
    [][(PassThroughPush /\ whisper_context = nullptr) =>
            info_out_buffer' = <<>>]_vars

\* lines 727-738: a step of cleanstream_destroy that frees buffers
DestroyFrees == c_pc \in {"d_free", "d_free_info"} /\ c_pc' # c_pc

\* line 718 has returned: no worker thread is left
WorkerJoined == whisper_thread = NoThread /\ \A w \in Workers : w_pc[w] = "unborn"

InferDone(w) == w_pc[w] = "infer_cs" /\ w_pc'[w] = "publish"
AssembleDone(w) == w_pc[w] = "proc_cs" /\ w_pc'[w] \in {"infer", "publish"}

\* the classifications of lines 298-304
DetectionResults == {UNKNOWN, SILENCE, SPEECH, FILLER, BEEP}

HeadFrames(w) == last_num_frames - w_local[w].num_new_frames_from_infos

\* C19: in a window after the first the samples retained at the head of the
\* window are left alone by the FILLER / BEEP replacement, which covers the
\* newly consumed samples only, and the packet published for the window
\* carries the newly consumed samples and not the head.
C19_OverlapHeadPreserved ==
    [][\A w \in Workers : \A c \in Channels :
        /\ (InferDone(w) /\ HeadFrames(w) > 0) =>
              \A i \in 1 .. HeadFrames(w) :
                    copy_output_buffers'[c][i] = copy_output_buffers[c][i]
        /\ (PublishBy(w) /\ HeadFrames(w) > 0) =>
              output_buffers'[c] = output_buffers[c] \o
                    SubSeq(copy_output_buffers[c], HeadFrames(w) + 1,
                           last_num_frames)]_vars

\* C20: a window that the VAD gate skipped is published without the ASR being
\* called and with its samples as they were taken, and the adaptive overlap
\* is not increased for it: an over-run may decrease overlap_ms, otherwise it
\* stays as it is.
C20_VadSkipLeavesWindow ==
    [][\A w \in Workers :
        /\ (AssembleDone(w) /\ w_local'[w].skipped_inference) =>
              vad_enabled /\ w_pc'[w] = "publish"
        /\ InferDone(w) => ~w_local[w].skipped_inference
        /\ (PublishBy(w) /\ w_local[w].skipped_inference) =>
              /\ copy_output_buffers = copy_buffers
              /\ \A c \in Channels :
                    output_buffers'[c] = output_buffers[c] \o
                        Take(copy_buffers[c],
                             w_local[w].num_new_frames_from_infos)
              /\ ~U64Less(overlap_ms, overlap_ms')]_vars

\* the transcript has been classified
Classified == inference_result # UNKNOWN

\* the transcript as the patterns see it
TextLower == RTrim(ToLower(text))

\* a pattern that is set, compiles and matches the transcript
PatternMatches(pattern) ==
    pattern # NoPattern /\ Compiles(pattern) /\ RegexSearch(TextLower, pattern)

\* C21: for a successful ASR call the class is decided in this order: an empty
\* transcript (after lowercasing and right-trimming) is SILENCE; otherwise a
\* non-empty filler pattern that matches gives FILLER; otherwise a non-empty
\* beep pattern that matches gives BEEP; otherwise SPEECH.  An empty filler
\* pattern never gives FILLER and an empty beep pattern never gives BEEP.
C21_ClassificationOrder ==
    Classified =>
        /\ inference_result =
              IF TextLower = <<>> THEN SILENCE
              ELSE IF PatternMatches(detect_regex) THEN FILLER
              ELSE IF PatternMatches(beep_regex) THEN BEEP
              ELSE SPEECH
        /\ detect_regex = NoPattern => inference_result # FILLER
        /\ beep_regex = NoPattern => inference_result # BEEP

\* C26: a pattern that fails to compile counts as a non-match of that pattern
\* only: the other pattern is still tried (a filler pattern that does not
\* compile and a beep pattern that matches give BEEP), and the result is not
\* UNKNOWN.
C26_BadPatternIsNonMatch ==
    (Classified /\ (~Compiles(detect_regex) \/ ~Compiles(beep_regex))) =>
        /\ inference_result \in {SILENCE, SPEECH, FILLER, BEEP}
        /\ (TextLower # <<>> /\ ~Compiles(detect_regex)
                /\ PatternMatches(beep_regex)) => inference_result = BEEP
        /\ (TextLower # <<>> /\ ~Compiles(beep_regex)
                /\ PatternMatches(detect_regex)) => inference_result = FILLER

\* C22: Step 1 accepts packet infos from the front of the info buffer while
\* the sum of their frames stays at or below the target; the first info that
\* would exceed it goes back to the front with its frames and timestamp as
\* they were.  So the new frames never exceed the target, the infos left keep
\* their order, and no packet is split between two windows.
C22_WholePacketsUpToTarget ==
    [][\A w \in Workers : AssembleDone(w) =>
        LET needed == HowManyFramesNeeded(last_num_frames, overlap_frames)
            num == w_local'[w].num_new_frames_from_infos
        IN \E k \in 0 .. Len(info_buffer) :
            /\ info_buffer' = Drop(info_buffer, k)
            /\ num = SumFrames(Take(info_buffer, k))
            /\ ~U64Less(needed, num)
            /\ k < Len(info_buffer) =>
                    U64Less(needed, num + info_buffer[k + 1].frames)
            /\ \A c \in Channels :
                    input_buffers'[c] = Drop(input_buffers[c], num)]_vars

\* a window after the first took a whole 2-frame packet and left the
\* 10-frame packet behind it at the front of the info buffer
C22_PacketPushedBack ==
    \E w \in Workers :
        /\ w_pc[w] \in {"infer", "publish"} /\ windows >= 1
        /\ w_local[w].num_new_frames_from_infos = 2
        /\ info_buffer # <<>> /\ Head(info_buffer).frames = 10
        /\ Head(info_buffer).id = w_local[w].first_id + 1

\* C23: the first window (last_num_frames = 0) holds new samples only and
\* sets last_num_frames to their number; every later window holds the last
\* overlap_frames samples of the window before it followed by the new
\* samples and sets last_num_frames to their number plus overlap_frames, with
\* the overlap_frames of the start of the invocation.  The new samples are
\* bounded by frames in the first window and by frames - overlap_frames later.
C23_WindowLayout ==
    [][\A w \in Workers :
        /\ w_pc[w] = "proc_cs" => fatal' = "none"
        /\ AssembleDone(w) =>
            LET num == w_local'[w].num_new_frames_from_infos
            IN \A c \in Channels :
                IF last_num_frames = 0
                THEN /\ num <= frames
                     /\ copy_buffers'[c] = Take(input_buffers[c], num)
                     /\ last_num_frames' = num
                ELSE /\ overlap_frames <= last_num_frames
                     /\ num <= frames - overlap_frames
                     /\ copy_buffers'[c] =
                            SubSeq(copy_buffers[c],
                                   last_num_frames - overlap_frames + 1,
                                   last_num_frames)
                            \o Take(input_buffers[c], num)
                     /\ last_num_frames' = num + overlap_frames]_vars

\* the larger and the smaller of two integers
MaxOf(a, b) == IF a >= b THEN a ELSE b
MinOf(a, b) == IF a <= b THEN a ELSE b

\* C24: after each window overlap_ms becomes max(overlap_ms - 10, 100) when
\* the window over-ran, else min(overlap_ms + 10, floor(0.75 * new_ms)) when
\* inference was not skipped, else it is unchanged; overlap_frames is
\* overlap_ms * sample_rate / 1000.  From 340 ms, over-runs alone take
\* overlap_ms down by 10 per window to 100 and not below.
C24_OverlapRule ==
    [][\A w \in Workers : PublishBy(w) =>
        LET new_ms == NewFramesMs(w_local[w].num_new_frames_from_infos)
        IN /\ overlap_ms' \in
                {MaxOf(overlap_ms - OVERLAP_STEP_MSEC, MIN_OVERLAP_MSEC)} \cup
                (IF w_local[w].skipped_inference
                 THEN {overlap_ms}
                 ELSE {MinOf(overlap_ms + OVERLAP_STEP_MSEC,
                             (new_ms * 3) \div 4)})
           /\ overlap_frames' = (overlap_ms' * sample_rate) \div MSEC_PER_SEC]_vars

\* lines 312-385: worker w is inside the ASR call, holding the context mutex
AsrInFlight(w) == w_pc[w] = "infer_cs"

\* C25: while an ASR call is in flight (the worker holds the context mutex)
\* no other thread frees or nulls the context or rewrites the ASR parameters,
\* so the call runs on a live context with the parameters it started with,
\* and no context is freed twice.
C25_CallKeepsContext ==
    [][\A w \in Workers : AsrInFlight(w) =>
        /\ whisper_ctx_mutex = w
        /\ whisper_context # nullptr => whisper_context \in ctx_live
        /\ fatal' # "double_free"
        /\ ~InferDone(w) =>
              /\ whisper_params' = whisper_params
              /\ whisper_context # nullptr =>
                    whisper_context' # nullptr /\ whisper_context \in ctx_live']_vars

\* C27: in every reachable state overlap_frames is below frames, so that
\* frames - overlap_frames does not wrap, and the window never outgrows the
\* staging buffer of a channel, which holds frames samples: last_num_frames
\* is at most frames.
C27_WindowFitsStaging ==
    /\ U64Less(overlap_frames, frames)
    /\ ~U64Less(frames, last_num_frames)
    /\ \A c \in Channels : Len(copy_buffers[c]) <= frames

\* C28: when a window after the first is assembled, last_num_frames is at
\* least overlap_frames, so the overlap copied from offset last_num_frames -
\* overlap_frames lies inside the data of the window before it.
C28_OverlapInsideLastWindow ==
    \A w \in Workers :
        (w_pc[w] = "proc_cs" /\ last_num_frames > 0) =>
            ~U64Less(last_num_frames, overlap_frames)

\* C29: every process_audio_from_buffer invocation takes at least one packet
\* (num_new_frames > 0), so no packet of zero frames is published.
C29_WindowConsumesInput ==
    [][\A w \in Workers :
        /\ AssembleDone(w) =>
              /\ w_local'[w].num_new_frames_from_infos > 0
              /\ Len(info_buffer') < Len(info_buffer)
        /\ PublishBy(w) => Last(info_out_buffer').frames > 0]_vars

\* C30: the worker handle is joined only when it is joinable, and a new worker
\* is assigned to the handle only when it holds no unjoined thread, whatever
\* the order of updates, download results and destroy.
C30_HandleJoinedAndAssigned ==
    [][/\ (c_pc = "d_join" /\ (c_pc' = "d_lock_buf" \/ fatal' = "terminate"))
            => whisper_thread # NoThread
       /\ (\E w \in Workers : w_pc[w] = "unborn" /\ w_pc'[w] = "loop")
            => whisper_thread = NoThread]_vars

\* C31: a pop from a ring never asks for more than the ring holds: the worker
\* pops num_new_frames samples of every input channel only when that many are
\* queued, and a push pops the frames of the output info only when that many
\* samples are queued on every output channel.
C31_PopsWithinRings ==
    [][/\ \A w \in Workers : AssembleDone(w) =>
            \A c \in Channels :
                PopFront(input_buffers[c],
                         w_local'[w].num_new_frames_from_infos).ok
       /\ (PopStep /\ info_out_buffer # <<>>) =>
            \A c \in Channels :
                PopFront(output_buffers[c], Head(info_out_buffer).frames).ok]_vars

\* the worker has popped a window from the input rings while a later packet
\* stayed queued, and a push has popped that window's samples from the output
\* rings
C31_BothRingsPopped ==
    /\ a_pc = "idle" /\ returned # <<>>
    /\ ~Last(returned).verbatim /\ Last(returned).frames = frames
    /\ info_buffer # <<>> /\ \A c \in Channels : input_buffers[c] # <<>>
    /\ info_out_buffer = <<>>

\* the steps of cleanstream_update on the path where the model path is
\* unchanged: the entry that finds the paths equal, the lock of line 790 and
\* the parameter block (the last two also end an update that reloaded)
UpdateEntry == c_pc = "idle" /\ c_pc' \in {"upd_reload", "upd_params"}
UpdateKeepsModel == c_pc = "idle" /\ c_pc' = "upd_params"
UpdateLocksParams == c_pc = "upd_params" /\ c_pc' = "upd_params_cs"
UpdateStoresParams == c_pc = "upd_params_cs" /\ c_pc' = "idle"
ScalarSettings == <<do_silence, vad_enabled, detect_regex, beep_regex>>

\* C32: an update whose model path equals the current one takes the path
\* without reload and leaves the context pointer, the worker thread, the four
\* rings and the window state as they are; it replaces the scalar settings on
\* entry and the ASR parameters while it holds the context mutex.
C32_SamePathUpdateKeepsPipeline ==
    [][/\ UpdateEntry =>
            (c_pc' = "upd_params" <=> c_new_path' = whisper_model_path)
       /\ (UpdateKeepsModel \/ UpdateLocksParams \/ UpdateStoresParams) =>
            UNCHANGED <<active, whisper_context, whisper_model_path,
                        whisper_thread, w_pc, ringVars, windowVars, downloads,
                        ctx_live>>
       /\ UpdateKeepsModel =>
            /\ UNCHANGED <<whisper_params, mutexVars>>
            /\ \E s \in SettingsChoices :
                    /\ ScalarSettings' = <<s.do_silence, s.vad_enabled,
                                           s.detect_regex, s.beep_regex>>
                    /\ c_new_params' = s.whisper_params
       /\ UpdateLocksParams =>
            /\ whisper_ctx_mutex = NoThread /\ whisper_ctx_mutex' = "ctl"
            /\ UNCHANGED <<whisper_params, ScalarSettings>>
       /\ UpdateStoresParams =>
            /\ whisper_ctx_mutex = "ctl" /\ whisper_ctx_mutex' = NoThread
            /\ whisper_params' = c_new_params
            /\ UNCHANGED ScalarSettings]_vars

\* an update that kept the model has returned while a window had been
\* processed and its packet was queued for output: the first context and the
\* first worker are still in place
C32_UpdatedWithoutReload ==
    /\ c_pc = "idle" /\ updates > 0
    /\ whisper_context = 1 /\ ctx_live = {1} /\ ctx_allocated = 1
    /\ whisper_thread = "w1" /\ w_pc["w1"] \notin {"unborn", "exited"}
    /\ whisper_model_path = "tiny" /\ downloads = <<>>
    /\ last_num_frames > 0 /\ info_out_buffer # <<>>
====
